---------------------------- MODULE Spec2Model ----------------------------
(***************************************************************************)
(* Capture / annotate / publish pipeline of owl_cam.                       *)
(*                                                                         *)
(* Two scripts are modelled side by side, selected by `variant`:           *)
(*   "pi6"  src/cap_pi6.py     (single, timelapse; full Finalizing pass)   *)
(*   "pi4"  src/capture_pi4.py (single, timelapse, button; index-only      *)
(*                              Finalizing)                                *)
(*                                                                         *)
(* cap_pi6.py spells the rotation parameter of single_capture and          *)
(* timelapse_capture `args.rotate=None` and reads `args.debug` inside      *)
(* them; the model reads these as the option record `args` being visible   *)
(* in those functions, which is what every use of it in the file assumes.  *)
(*                                                                         *)
(* The main thread is a program counter `pc` over statement-level labels.  *)
(* _scp_upload is a subroutine (labels up_which, up_ensure, up_scp) that   *)
(* returns to After(site).  A KeyboardInterrupt is delivered to the main   *)
(* thread before the statement at `pc` runs.  In button mode the GPIO      *)
(* callback runs on its own thread with counter `hpc`.                     *)
(***************************************************************************)
EXTENDS Integers, Sequences, FiniteSets, TLC

(***************************************************************************)
(* Bounds of the model.                                                    *)
(***************************************************************************)
MaxCount == 2        \* largest --count drawn for a timed series
MaxInterrupts == 1   \* Ctrl-C presses delivered in one run
MaxTriggers == 2     \* button presses accepted in one run
MaxFaults == 1       \* remote calls that fail on a flaky link to the remote host

(***************************************************************************)
(* Time.  The clock counts tenths of a second.                             *)
(***************************************************************************)
BounceTime == 3      \* bouncetime=300 ms
SettleDelay == 15    \* time.sleep(1.5) after picam2.start()
GraceDelay == 50     \* time.sleep(5) before the process ends
TenMinutes == 6000
\* time that passes in the sleep of a series, or between two accepted button
\* presses: the bounce window, or long enough to change every digit of the stamp
ClockSteps == {BounceTime, TenMinutes + 10}

None == "None"

VARIABLES
  variant,     \* which script runs
  args,        \* parsed command line
  env,         \* what the host offers: tools, libraries
  scp_config,  \* None or "cfg"
  pc,          \* main thread: label of the next statement
  site,        \* main thread: label of the statement that called _scp_upload
  upfile,      \* main thread: local_path of the running _scp_upload
  pending,     \* exception travelling through main's try/finally
  i,           \* timelapse_capture: i
  fname,       \* single_capture / timelapse_capture: fname
  idx,         \* idx of the running function
  entries,     \* main (pi6): entries
  fn,          \* main (pi6): fn, NoName until the loop binds it
  k,           \* main (pi6): position of the for loop in entries
  outdir,      \* directory listing: sequence of [name, mtime], in directory order
  dirstate,    \* what the path args.outdir is: "dir", "missing", "file", "denied"
  indexPage,   \* index.html: [written, title, tiles]
  thumbnail,   \* thumbnail.jpg in the working directory: [written, from, mtime]
  clock,       \* wall clock
  picam2,      \* driver: "none", "created", "started", "stopped", "closed"
  log,         \* main thread: history of capture requests, file operations, remote calls
  calls,       \* main thread: number of _scp_upload calls begun
  faults,      \* remote calls that failed on a flaky link
  exitcode,    \* -1 while running, then the exit status
  interrupts,  \* Ctrl-C presses so far
  registered,  \* GPIO event detection armed
  triggers,    \* button presses accepted so far
  hpc,         \* callback thread: label of next statement
  hsite,       \* callback thread: caller of _scp_upload
  hfname,      \* handler: fname
  hidx,        \* handler: idx
  hupfile,     \* callback thread: local_path of the running _scp_upload
  hlog,        \* callback thread: its history, as log
  hcalls       \* callback thread: number of _scp_upload calls begun

vars == <<variant, args, env, scp_config, pc, site, upfile, pending, i, fname,
          idx, entries, fn, k, outdir, dirstate, indexPage, thumbnail, clock, picam2, log,
          calls, faults, exitcode, interrupts, registered, triggers, hpc, hsite, hfname,
          hidx, hupfile, hlog, hcalls>>

mainVars == <<pc, site, upfile, pending, i, fname, idx, entries, fn, k>>
cbVars == <<hpc, hsite, hfname, hidx, hupfile, triggers, hlog, hcalls>>
cfgVars == <<variant, args, env>>

(***************************************************************************)
(* Naming Service.                                                         *)
(***************************************************************************)
RECURSIVE Digits(_)
Digits(n) == IF n < 10 THEN <<n>> ELSE Digits(n \div 10) \o <<n % 10>>

RECURSIVE ZeroPad(_, _)
ZeroPad(s, w) == IF Len(s) >= w THEN s ELSE ZeroPad(<<0>> \o s, w)

\* f"img{i:04d}"
SeqPrefix(n) == [base |-> "img", num |-> ZeroPad(Digits(n), 4)]
PlainPrefix(p) == [base |-> p, num |-> <<>>]

\* strftime("%Y%m%d_%H%M%S"): the first item stands for the leading twelve
\* characters (date, hour, tens of minutes), then the minute's unit digit and
\* the two digits of the second.
Strftime(t) ==
  LET sec == t \div 10
  IN  <<sec \div 600, (sec \div 60) % 10, (sec % 60) \div 10, sec % 10>>

\* ts of timestamped_filename: cap_pi6 keeps the string, capture_pi4 slices [:-3]
Stamp(v, t) ==
  IF v = "pi4" THEN SubSeq(Strftime(t), 1, Len(Strftime(t)) - 3) ELSE Strftime(t)

timestamped_filename(v, prefix, t) ==
  [prefix |-> prefix, ts |-> Stamp(v, t), ext |-> "jpg"]

\* A media set that also takes the page itself for a media file.
image_exts_html == {"jpg", "jpeg", "png", "gif", "webp", "mp4", "html"}


image_exts == {"jpg", "jpeg", "png", "gif", "webp", "mp4"}

IndexName == [prefix |-> PlainPrefix("index"), ts |-> <<>>, ext |-> "html"]
ThumbName == [prefix |-> PlainPrefix("thumbnail"), ts |-> <<>>, ext |-> "jpg"]
OldName(n) == [prefix |-> PlainPrefix("old"), ts |-> <<n>>, ext |-> "jpg"]
NotesName == [prefix |-> PlainPrefix("notes"), ts |-> <<>>, ext |-> "txt"]
\* Python's None, and an unbound local, where a file name is expected
NoName == [prefix |-> PlainPrefix("None"), ts |-> <<>>, ext |-> ""]
NoCount == -1        \* --count omitted: count is None

(***************************************************************************)
(* The output directory.                                                   *)
(***************************************************************************)
Names(dir) == {dir[j].name : j \in 1..Len(dir)}

PosOf(dir, nm) == CHOOSE j \in 1..Len(dir) : dir[j].name = nm

InsertAt(dir, p, f) == SubSeq(dir, 1, p - 1) \o <<f>> \o SubSeq(dir, p, Len(dir))

\* Writing a file: an existing name is overwritten where it stands; a new name
\* goes where the file system lists new entries, first or last.
WriteFile(dir, nm, t, order) ==
  IF nm \in Names(dir)
    THEN [dir EXCEPT ![PosOf(dir, nm)] = [name |-> nm, mtime |-> t]]
    ELSE InsertAt(dir, IF order = "first" THEN 1 ELSE Len(dir) + 1,
                  [name |-> nm, mtime |-> t])

Mtime(dir, nm) == dir[PosOf(dir, nm)].mtime

\* [f for f in os.listdir(outdir) if splitext(f)[1].lstrip(".").lower() in image_exts]
RECURSIVE ListMedia(_)
ListMedia(dir) ==
  IF dir = <<>> THEN <<>>
  ELSE (IF Head(dir).name.ext \in image_exts THEN <<Head(dir).name>> ELSE <<>>)
       \o ListMedia(Tail(dir))

\* An insertion that puts a name before the names of the same mtime.
RECURSIVE InsertDescUnstable(_, _, _)
InsertDescUnstable(sorted, nm, dir) ==
  IF sorted = <<>> THEN <<nm>>
  ELSE IF Mtime(dir, Head(sorted)) > Mtime(dir, nm)
         THEN <<Head(sorted)>> \o InsertDescUnstable(Tail(sorted), nm, dir)
         ELSE <<nm>> \o sorted

\* entries.sort(key=getmtime, reverse=True): stable, newest first
RECURSIVE InsertDesc(_, _, _)
InsertDesc(sorted, nm, dir) ==
  IF sorted = <<>> THEN <<nm>>
  ELSE IF Mtime(dir, Head(sorted)) >= Mtime(dir, nm)
         THEN <<Head(sorted)>> \o InsertDesc(Tail(sorted), nm, dir)
         ELSE <<nm>> \o sorted

RECURSIVE SortFrom(_, _, _)
SortFrom(sorted, rest, dir) ==
  IF rest = <<>> THEN sorted
  ELSE SortFrom(InsertDesc(sorted, Head(rest), dir), Tail(rest), dir)

SortByMtimeDesc(names, dir) == SortFrom(<<>>, names, dir)

SortedEntries(dir) == SortByMtimeDesc(ListMedia(dir), dir)

\* os.makedirs(path, exist_ok=True)
ensure_outdir(st) == IF st = "missing" THEN "dir" ELSE st
EnsureError(st) == IF st = "file" THEN "FileExistsError" ELSE None

\* os.listdir(outdir): the error it raises, None when it returns
ListError(st) ==
  CASE st = "missing" -> "FileNotFoundError"
    [] st = "file"    -> "NotADirectoryError"
    [] st = "denied"  -> "PermissionError"
    [] OTHER          -> None

\* A listing that takes every file of the directory for an entry.
EntriesOfAnyFile(dir, st) ==
  IF ListError(st) = "FileNotFoundError" THEN <<>>
  ELSE SortByMtimeDesc([j \in 1..Len(dir) |-> dir[j].name], dir)

\* entries of build_index_html and of main's finally block:
\* `except FileNotFoundError: entries = []`, then the sort
EntriesOf(dir, st) == IF ListError(st) = "FileNotFoundError" THEN <<>> ELSE SortedEntries(dir)
\* the error of os.listdir that `except FileNotFoundError` lets through
ListEscapes(st) == IF ListError(st) = "FileNotFoundError" THEN None ELSE ListError(st)


(***************************************************************************)
(* Labels.                                                                 *)
(***************************************************************************)
PreLabels == {"parse", "cam_new", "start"}
SingleLabels == {"s_capture", "s_rotate", "s_annotate", "s_upload", "s_index", "s_upidx"}
TimedTryLabels == {"t_loop", "t_capture", "t_annotate", "t_index", "t_sleep"}
TimedLabels == {"t_enter"} \cup TimedTryLabels
ButtonLabels == {"b_setup", "b_wait", "b_cleanup"}
CapLabels == {"dispatch"} \cup SingleLabels \cup TimedLabels \cup ButtonLabels
FinLabels == {"fin_index", "fin_upidx", "fin_list", "fin_loop", "fin_copy",
              "fin_upthumb", "fin_end"}
PostLabels == {"stop", "close", "grace"}
UpLabels == {"up_which", "up_ensure", "up_scp"}
HUpLabels == {"hup_which", "hup_ensure", "hup_scp"}

\* the statement of main, single_capture, timelapse_capture or button_capture
\* that the main thread is in
EffPc == IF pc \in UpLabels THEN site ELSE pc

Capturing == EffPc \in CapLabels
Finalizing == EffPc \in FinLabels
Stopped == picam2 \in {"stopped", "closed"}   \* the driver is released
Exited == pc = "done"                        \* the process has ended
Running == exitcode = -1

PhaseOf(l) == IF l \in CapLabels THEN "Capturing"
              ELSE IF l \in FinLabels THEN "Finalizing" ELSE "other"

\* One entry of a thread's history: op is "capture", "rotate", "annotate",
\* "index", "copy", "publish" (a call of _scp_upload), "ensure", "scp" or
\* "interrupt"; at is the statement that did it.
Ev(op, file, ok, call, by, at, phase) ==
  [op |-> op, file |-> file, ok |-> ok, call |-> call, by |-> by, at |-> at,
   phase |-> phase]

MainEv(op, file, ok, call) == Ev(op, file, ok, call, "main", EffPc, PhaseOf(EffPc))
CbEv(op, file, ok, call, at) == Ev(op, file, ok, call, "cb", at, "Capturing")

NoFile == [path |-> NoName, call |-> 0]

(***************************************************************************)
(* Configurations a run can start from.                                    *)
(***************************************************************************)
Modes(v) == IF v = "pi6" THEN {"single", "timelapse"}
            ELSE {"single", "timelapse", "button"}

Counts(m) == IF m = "timelapse" THEN {NoCount} \cup 0..MaxCount ELSE {NoCount}

\* the list `missing` that main collects when --scp is given
Missing(a) ==
  (IF a.remote_host THEN {} ELSE {"--remote-host"})
    \cup (IF a.remote_user THEN {} ELSE {"--remote-user"})
    \cup (IF a.remote_path THEN {} ELSE {"--remote-path"})

ArgSets ==
  { a \in [mode : {"single", "timelapse", "button"},
           count : {NoCount} \cup 0..MaxCount,
           scp : BOOLEAN,
           remote_host : BOOLEAN,      \* is the option given (and not empty)
           remote_user : BOOLEAN,
           remote_path : BOOLEAN,
           build_index : BOOLEAN,
           rotate : {0, 90},
           interval : ClockSteps] :
      /\ a.count \in Counts(a.mode)
      /\ (~a.scp => Missing(a) = {})
      /\ (a.mode # "single" => a.rotate = 90)
      /\ (a.mode # "timelapse" => a.interval = BounceTime) }

Healthy ==
  [scp_tool |-> TRUE,       \* shutil.which("scp")
   remote |-> "up",         \* the remote host: "up", "down", or "flaky"
   annot |-> "ok",          \* PIL present and the image readable
   writable |-> TRUE,       \* can index.html be written
   gpio |-> TRUE,           \* GPIO_AVAILABLE
   camera |-> "ok",         \* does capture_file return
   listing |-> "last",      \* where os.listdir shows a new file
   pace |-> TenMinutes + 10] \* time between two accepted button presses

\* hosts a run can meet: a healthy one, or one with one thing different
EnvSets ==
  {Healthy,
   [Healthy EXCEPT !.scp_tool = FALSE],
   [Healthy EXCEPT !.remote = "down"],
   [Healthy EXCEPT !.remote = "flaky"],
   [Healthy EXCEPT !.annot = "fails"],
   [Healthy EXCEPT !.writable = FALSE],
   [Healthy EXCEPT !.gpio = FALSE],
   [Healthy EXCEPT !.camera = "fails"],
   [Healthy EXCEPT !.listing = "first"],
   [Healthy EXCEPT !.pace = BounceTime]}

OldFiles == <<[name |-> NotesName, mtime |-> 0], [name |-> OldName(1), mtime |-> 0],
              [name |-> OldName(2), mtime |-> 0]>>

NoPage == [written |-> FALSE, title |-> "", tiles |-> <<>>]
NoThumb == [written |-> FALSE, from |-> NoName, mtime |-> 0]

\* the directory is empty, or holds a text file and media of an earlier run
InitialDirs == {<<>>, OldFiles}

\* the path given as --outdir: a directory, nothing yet, a regular file, or a
\* directory that may be written and entered but not listed
DirStates == {"dir", "missing", "file", "denied"}

Init ==
  /\ variant \in {"pi4", "pi6"}
  /\ args \in ArgSets
  /\ args.mode \in Modes(variant)
  /\ (variant = "pi4" => args.rotate = 90)
  /\ env \in EnvSets
  /\ (~args.scp => env.scp_tool /\ env.remote = "up")
  /\ (args.mode # "button" => env.gpio /\ env.pace = Healthy.pace)
  /\ scp_config = None
  /\ pc = "parse"
  /\ site = None
  /\ upfile = NoFile
  /\ pending = None
  /\ i = 0
  /\ fname = NoName
  /\ idx = NoName
  /\ entries = <<>>
  /\ fn = NoName
  /\ k = 1
  /\ outdir \in InitialDirs
  /\ dirstate \in DirStates
  /\ (dirstate # "dir" => env = Healthy)
  /\ (dirstate \in {"missing", "file"} => outdir = <<>>)
  /\ indexPage = NoPage
  /\ thumbnail = NoThumb
  /\ clock = 0
  /\ picam2 = "none"
  /\ log = <<>>
  /\ calls = 0
  /\ faults = 0
  /\ exitcode = -1
  /\ interrupts = 0
  /\ registered = FALSE
  /\ triggers = 0
  /\ hpc = "idle"
  /\ hsite = None
  /\ hfname = NoName
  /\ hidx = NoName
  /\ hupfile = NoFile
  /\ hlog = <<>>
  /\ hcalls = 0

(***************************************************************************)
(* Exceptions in the main thread.                                          *)
(***************************************************************************)
ExitStatus(e) == IF e = "KeyboardInterrupt" THEN 130 ELSE 1

\* An unwinding in which timelapse_capture has no except clause: Ctrl-C in
\* the loop of a series ends the process at once.
UnwindAbrupt(l, e) ==
  IF l = "b_wait" /\ e = "KeyboardInterrupt"
    THEN [pc |-> "b_cleanup", pending |-> pending, exitcode |-> -1]
  ELSE IF l \in CapLabels /\ ~(l \in TimedTryLabels /\ e = "KeyboardInterrupt")
    THEN [pc |-> "fin_index", pending |-> e, exitcode |-> -1]
  ELSE [pc |-> "done", pending |-> e, exitcode |-> ExitStatus(e)]

\* Where an exception e raised by the statement at label l takes the main
\* thread: [pc, pending, exitcode].
Unwind(l, e) ==
  IF l \in TimedTryLabels /\ e = "KeyboardInterrupt"
    THEN [pc |-> "fin_index", pending |-> pending, exitcode |-> -1]
  ELSE IF l = "b_wait" /\ e = "KeyboardInterrupt"
    THEN [pc |-> "b_cleanup", pending |-> pending, exitcode |-> -1]
  ELSE IF l \in CapLabels
    THEN [pc |-> "fin_index", pending |-> e, exitcode |-> -1]
  ELSE [pc |-> "done", pending |-> e, exitcode |-> ExitStatus(e)]

Raise(e) ==
  LET u == Unwind(EffPc, e)
  IN  /\ pc' = u.pc
      /\ pending' = u.pending
      /\ exitcode' = u.exitcode
      /\ site' = None
      /\ upfile' = NoFile


(***************************************************************************)
(* Remote Mirror: _scp_upload and _ensure_remote_dir.                      *)
(***************************************************************************)
\* Results a remote call (ssh mkdir -p, scp) can have.  A missing ssh tool
\* makes _ensure_remote_dir return False like a failed ssh run does.
RemoteOutcomes ==
  IF env.remote = "down" THEN {FALSE}
  ELSE IF env.remote = "flaky" /\ faults < MaxFaults THEN {TRUE, FALSE}
  ELSE {TRUE}

CountFault(ok) == faults' = IF ~ok /\ env.remote = "flaky" THEN faults + 1 ELSE faults

\* Statement after the one at label l in the main thread.
After(l) ==
  CASE l = "s_upload"    -> "s_index"
    [] l = "s_upidx"     -> "fin_index"
    [] l = "fin_upidx"   -> IF variant = "pi6" THEN "fin_list" ELSE "fin_end"
    [] l = "fin_loop"    -> "fin_loop"
    [] l = "fin_upthumb" -> "fin_end"

HAfter(l) ==
  CASE l = "h_upload" -> "h_index"
    [] l = "h_upidx"  -> "idle"

\* the call _scp_upload(path, **scp_config) made by the statement at pc
CallUpload(path) ==
  /\ site' = pc
  /\ upfile' = [path |-> path, call |-> calls + 1]
  /\ calls' = calls + 1
  /\ log' = Append(log, MainEv("publish", path, TRUE, calls + 1))
  /\ pc' = "up_which"

\* if shutil.which("scp") is None: return False
UpWhich ==
  /\ Running /\ pc = "up_which"
  /\ pc' = IF env.scp_tool THEN "up_ensure" ELSE After(site)
  /\ site' = IF env.scp_tool THEN site ELSE None
  /\ upfile' = IF env.scp_tool THEN upfile ELSE NoFile
  /\ UNCHANGED <<cfgVars, dirstate, scp_config, pending, i, fname, idx, entries, fn, k,
                 outdir, indexPage, thumbnail, clock, picam2, log, calls, faults,
                 exitcode, interrupts, registered, cbVars>>

\* A publish call that goes on to the transfer whatever the ensure returned.
UpEnsureIgnoresResult ==
  /\ Running /\ pc = "up_ensure"
  /\ \E ok \in RemoteOutcomes :
       /\ log' = Append(log, MainEv("ensure", upfile.path, ok, upfile.call))
       /\ CountFault(ok)
  /\ pc' = "up_scp"
  /\ UNCHANGED <<cfgVars, dirstate, scp_config, site, upfile, pending, i, fname, idx,
                 entries, fn, k, outdir, indexPage, thumbnail, clock, picam2,
                 calls, exitcode, interrupts, registered, cbVars>>

\* ok = _ensure_remote_dir(...); if not ok: return False
UpEnsure ==
  /\ Running /\ pc = "up_ensure"
  /\ \E ok \in RemoteOutcomes :
       /\ log' = Append(log, MainEv("ensure", upfile.path, ok, upfile.call))
       /\ CountFault(ok)
       /\ pc' = IF ok THEN "up_scp" ELSE After(site)
       /\ site' = IF ok THEN site ELSE None
       /\ upfile' = IF ok THEN upfile ELSE NoFile
  /\ UNCHANGED <<cfgVars, dirstate, scp_config, pending, i, fname, idx, entries, fn, k,
                 outdir, indexPage, thumbnail, clock, picam2, calls,
                 exitcode, interrupts, registered, cbVars>>

\* subprocess.run(["scp", ...], check=True); return True / False
UpScp ==
  /\ Running /\ pc = "up_scp"
  /\ \E ok \in RemoteOutcomes :
       /\ log' = Append(log, MainEv("scp", upfile.path, ok, upfile.call))
       /\ CountFault(ok)
  /\ pc' = After(site)
  /\ site' = None
  /\ upfile' = NoFile
  /\ UNCHANGED <<cfgVars, dirstate, scp_config, pending, i, fname, idx, entries, fn, k,
                 outdir, indexPage, thumbnail, clock, picam2, calls,
                 exitcode, interrupts, registered, cbVars>>

(***************************************************************************)
(* Index Builder and Annotator, as used by both threads.                   *)
(***************************************************************************)
Tile(dir, nm) == [href |-> nm, img |-> nm, mtime |-> Mtime(dir, nm)]

RECURSIVE Tiles(_, _)
Tiles(dir, names) ==
  IF names = <<>> THEN <<>> ELSE <<Tile(dir, Head(names))>> \o Tiles(dir, Tail(names))

TimelapseName == [prefix |-> PlainPrefix("timelapse"), ts |-> <<>>, ext |-> "mp4"]
\* cap_pi6 puts a card for timelapse.mp4 / thumbnail.jpg in front of the entries
FixedCard == [href |-> TimelapseName, img |-> ThumbName, mtime |-> 0]

\* the page build_index_html(outdir, title) composes
build_index_html(v, dir, title) ==
  [written |-> TRUE,
   title |-> title,
   tiles |-> (IF v = "pi6" THEN <<FixedCard>> ELSE <<>>)
               \o Tiles(dir, EntriesOf(dir, dirstate))]

\* does open(index_path, "w") succeed: the directory is there and lets the
\* file be written
WriteOk == dirstate \in {"dir", "denied"} /\ env.writable

\* build_index_html returns the page path: the listing did not escape and
\* the page could be written
IndexBuilt == WriteOk /\ ListEscapes(dirstate) = None

\* what the open(index_path, "w") of build_index_html leaves and returns
PageAfterBuild(title) == IF WriteOk THEN build_index_html(variant, outdir, title)
                         ELSE indexPage
IdxAfterBuild == IF WriteOk THEN IndexName ELSE NoName
\* index.html is a file of the directory it lists
DirAfterBuild == IF WriteOk THEN WriteFile(outdir, IndexName, clock, env.listing)
                 ELSE outdir

FinalTitle == "Owl Box Timelapse Image Index"
ArgsTitle == "args.index_title"

\* _annotate_image_with_timestamp: True and the file rewritten, or False
AnnotateOk == env.annot = "ok"
DirAfterAnnotate(nm) ==
  IF AnnotateOk /\ nm \in Names(outdir) THEN WriteFile(outdir, nm, clock, env.listing) ELSE outdir


(***************************************************************************)
(* main, up to the try block.                                              *)
(***************************************************************************)
\* A main that builds scp_config without looking at `missing`.
ParseNoValidation ==
  /\ Running /\ pc = "parse"
  /\ pc' = "cam_new"
  /\ scp_config' = IF args.scp THEN "cfg" ELSE None
  /\ UNCHANGED <<cfgVars, dirstate, site, upfile, pending, i, fname, idx, entries, fn, k,
                 outdir, indexPage, thumbnail, clock, picam2, log, calls, faults,
                 exitcode, interrupts, registered, cbVars>>

\* args = parser.parse_args(); the --scp validation; scp_config
Parse ==
  /\ Running /\ pc = "parse"
  /\ IF args.scp /\ Missing(args) # {}
       THEN /\ pc' = "done"                      \* parser.error(...)
            /\ exitcode' = 2
            /\ scp_config' = scp_config
       ELSE /\ pc' = "cam_new"
            /\ exitcode' = exitcode
            /\ scp_config' = IF args.scp THEN "cfg" ELSE None
  /\ UNCHANGED <<cfgVars, dirstate, site, upfile, pending, i, fname, idx, entries, fn, k,
                 outdir, indexPage, thumbnail, clock, picam2, log, calls, faults,
                 interrupts, registered, cbVars>>

\* picam2 = Picamera2(); picam2.configure(cfg)
NewCamera ==
  /\ Running /\ pc = "cam_new"
  /\ picam2' = "created"
  /\ pc' = "start"
  /\ UNCHANGED <<cfgVars, dirstate, scp_config, site, upfile, pending, i, fname, idx, entries,
                 fn, k, outdir, indexPage, thumbnail, clock, log, calls, faults,
                 exitcode, interrupts, registered, cbVars>>

\* picam2.start(); time.sleep(1.5)
Start ==
  /\ Running /\ pc = "start"
  /\ picam2' = "started"
  /\ clock' = clock + SettleDelay
  /\ pc' = "dispatch"
  /\ UNCHANGED <<cfgVars, dirstate, scp_config, site, upfile, pending, i, fname, idx, entries,
                 fn, k, outdir, indexPage, thumbnail, log, calls, faults,
                 exitcode, interrupts, registered, cbVars>>

\* try: if args.single: ... elif args.timelapse: ... elif args.button: ...
Dispatch ==
  /\ Running /\ pc = "dispatch"
  /\ pc' = CASE args.mode = "single"    -> "s_capture"
             [] args.mode = "timelapse" -> "t_enter"
             [] args.mode = "button"    -> "b_setup"
  /\ UNCHANGED <<cfgVars, dirstate, scp_config, site, upfile, pending, i, fname, idx, entries,
                 fn, k, outdir, indexPage, thumbnail, clock, picam2, log, calls,
                 faults, exitcode, interrupts, registered, cbVars>>

(***************************************************************************)
(* single_capture.                                                         *)
(***************************************************************************)
\* ensure_outdir(outdir); fname = timestamped_filename(outdir); picam2.capture_file(fname)
SCapture ==
  /\ Running /\ pc = "s_capture"
  /\ dirstate' = ensure_outdir(dirstate)
  /\ LET nm == timestamped_filename(variant, PlainPrefix("image"), clock)
     IN  IF EnsureError(dirstate) # None
           THEN /\ Raise(EnsureError(dirstate))
                /\ UNCHANGED <<fname, outdir, log>>
         ELSE IF env.camera = "ok"
           THEN /\ fname' = nm
                /\ outdir' = WriteFile(outdir, nm, clock, env.listing)
                /\ log' = Append(log, MainEv("capture", nm, TRUE, 0))
                /\ pc' = IF variant = "pi6" THEN "s_rotate" ELSE "s_annotate"
                /\ UNCHANGED <<pending, exitcode, site, upfile>>
           ELSE /\ fname' = nm
                /\ outdir' = outdir
                /\ log' = Append(log, MainEv("capture", nm, FALSE, 0))
                /\ Raise("RuntimeError")
  /\ UNCHANGED <<cfgVars, scp_config, i, idx, entries, fn, k, indexPage, thumbnail,
                 clock, picam2, calls, faults, interrupts, registered, cbVars>>

\* image_rotate(fname, args.rotate): every error is caught inside
RotateOk == env.annot = "ok" /\ args.rotate \in {90, 180, 270}

SRotate ==
  /\ Running /\ pc = "s_rotate"
  /\ outdir' = IF RotateOk THEN WriteFile(outdir, fname, clock, env.listing) ELSE outdir
  /\ log' = Append(log, MainEv("rotate", fname, RotateOk, 0))
  /\ pc' = "s_annotate"
  /\ UNCHANGED <<cfgVars, dirstate, scp_config, site, upfile, pending, i, fname, idx, entries,
                 fn, k, indexPage, thumbnail, clock, picam2, calls, faults,
                 exitcode, interrupts, registered, cbVars>>

\* A single_capture in which a failed annotation is an error of the run.
SAnnotateRaises ==
  /\ Running /\ pc = "s_annotate"
  /\ outdir' = DirAfterAnnotate(fname)
  /\ log' = Append(log, MainEv("annotate", fname, AnnotateOk, 0))
  /\ IF AnnotateOk
       THEN pc' = "s_upload" /\ UNCHANGED <<pending, exitcode>>
       ELSE Raise("OSError")
  /\ UNCHANGED <<cfgVars, dirstate, scp_config, site, upfile, i, fname, idx, entries,
                 fn, k, indexPage, thumbnail, clock, picam2, calls, faults,
                 interrupts, registered, cbVars>>

\* annotated = _annotate_image_with_timestamp(fname, text=ts_text)
SAnnotate ==
  /\ Running /\ pc = "s_annotate"
  /\ outdir' = DirAfterAnnotate(fname)
  /\ log' = Append(log, MainEv("annotate", fname, AnnotateOk, 0))
  /\ pc' = "s_upload"
  /\ UNCHANGED <<cfgVars, dirstate, scp_config, site, upfile, pending, i, fname, idx, entries,
                 fn, k, indexPage, thumbnail, clock, picam2, calls, faults,
                 exitcode, interrupts, registered, cbVars>>

\* if scp_config: _scp_upload(fname, **scp_config)
SUpload ==
  /\ Running /\ pc = "s_upload"
  /\ IF scp_config # None
       THEN CallUpload(fname)
       ELSE /\ pc' = After("s_upload")
            /\ UNCHANGED <<site, upfile, calls, log>>
  /\ UNCHANGED <<cfgVars, dirstate, scp_config, pending, i, fname, idx, entries, fn, k,
                 outdir, indexPage, thumbnail, clock, picam2, faults,
                 exitcode, interrupts, registered, cbVars>>

\* A single_capture that builds the index page without looking at build_index.
SIndexAlways ==
  /\ Running /\ pc = "s_index"
  /\ log' = Append(log, MainEv("index", IndexName, IndexBuilt, 0))
  /\ IF ListEscapes(dirstate) # None
       THEN /\ Raise(ListEscapes(dirstate))
            /\ UNCHANGED <<indexPage, idx, outdir>>
       ELSE /\ indexPage' = PageAfterBuild(ArgsTitle)
            /\ idx' = IdxAfterBuild
            /\ outdir' = DirAfterBuild
            /\ pc' = "s_upidx"
            /\ UNCHANGED <<pending, exitcode, site, upfile>>
  /\ UNCHANGED <<cfgVars, dirstate, scp_config, i, fname, entries,
                 fn, k, thumbnail, clock, picam2, calls, faults,
                 interrupts, registered, cbVars>>

\* if build_index: idx = build_index_html(outdir, title=index_title)
SIndex ==
  /\ Running /\ pc = "s_index"
  /\ IF ~args.build_index
       THEN /\ pc' = "fin_index"
            /\ UNCHANGED <<indexPage, idx, outdir, log, pending, exitcode, site, upfile>>
     ELSE /\ log' = Append(log, MainEv("index", IndexName, IndexBuilt, 0))
          /\ IF ListEscapes(dirstate) # None
               THEN /\ Raise(ListEscapes(dirstate))
                    /\ UNCHANGED <<indexPage, idx, outdir>>
               ELSE /\ indexPage' = PageAfterBuild(ArgsTitle)
                    /\ idx' = IdxAfterBuild
                    /\ outdir' = DirAfterBuild
                    /\ pc' = "s_upidx"
                    /\ UNCHANGED <<pending, exitcode, site, upfile>>
  /\ UNCHANGED <<cfgVars, dirstate, scp_config, i, fname, entries,
                 fn, k, thumbnail, clock, picam2, calls, faults,
                 interrupts, registered, cbVars>>

\* if idx and scp_config: _scp_upload(idx, **scp_config)
SUpIdx ==
  /\ Running /\ pc = "s_upidx"
  /\ IF idx # NoName /\ scp_config # None
       THEN CallUpload(idx)
       ELSE /\ pc' = After("s_upidx")
            /\ UNCHANGED <<site, upfile, calls, log>>
  /\ UNCHANGED <<cfgVars, dirstate, scp_config, pending, i, fname, idx, entries, fn, k,
                 outdir, indexPage, thumbnail, clock, picam2, faults,
                 exitcode, interrupts, registered, cbVars>>

(***************************************************************************)
(* timelapse_capture.                                                      *)
(***************************************************************************)
\* ensure_outdir(outdir); i = 0
TEnter ==
  /\ Running /\ pc = "t_enter"
  /\ dirstate' = ensure_outdir(dirstate)
  /\ IF EnsureError(dirstate) # None
       THEN /\ Raise(EnsureError(dirstate))
            /\ i' = i
       ELSE /\ i' = 0
            /\ pc' = "t_loop"
            /\ UNCHANGED <<pending, exitcode, site, upfile>>
  /\ UNCHANGED <<cfgVars, scp_config, fname, idx, entries,
                 fn, k, outdir, indexPage, thumbnail, clock, picam2, log, calls,
                 faults, interrupts, registered, cbVars>>

\* A loop test that is off by one: while count is None or i <= count.
TLoopOneMore ==
  /\ Running /\ pc = "t_loop"
  /\ (args.count = NoCount => i < MaxCount)
  /\ pc' = IF args.count = NoCount \/ i <= args.count THEN "t_capture" ELSE "fin_index"
  /\ UNCHANGED <<cfgVars, dirstate, scp_config, site, upfile, pending, i, fname, idx, entries,
                 fn, k, outdir, indexPage, thumbnail, clock, picam2, log, calls,
                 faults, exitcode, interrupts, registered, cbVars>>

\* while count is None or i < count   (an unbounded series is followed for
\* MaxCount frames; after that only an interrupt moves it)
TLoop ==
  /\ Running /\ pc = "t_loop"
  /\ (args.count = NoCount => i < MaxCount)
  /\ pc' = IF args.count = NoCount \/ i < args.count THEN "t_capture" ELSE "fin_index"
  /\ UNCHANGED <<cfgVars, dirstate, scp_config, site, upfile, pending, i, fname, idx, entries,
                 fn, k, outdir, indexPage, thumbnail, clock, picam2, log, calls,
                 faults, exitcode, interrupts, registered, cbVars>>

\* fname = timestamped_filename(outdir, prefix=f"img{i:04d}"); picam2.capture_file(fname)
TCapture ==
  /\ Running /\ pc = "t_capture"
  /\ LET nm == timestamped_filename(variant, SeqPrefix(i), clock)
     IN  /\ fname' = nm
         /\ IF env.camera = "ok"
              THEN /\ outdir' = WriteFile(outdir, nm, clock, env.listing)
                   /\ log' = Append(log, MainEv("capture", nm, TRUE, 0))
                   /\ pc' = "t_annotate"
                   /\ UNCHANGED <<pending, exitcode, site, upfile>>
              ELSE /\ outdir' = outdir
                   /\ log' = Append(log, MainEv("capture", nm, FALSE, 0))
                   /\ Raise("RuntimeError")
  /\ UNCHANGED <<cfgVars, dirstate, scp_config, i, idx, entries, fn, k, indexPage, thumbnail,
                 clock, picam2, calls, faults, interrupts, registered, cbVars>>

\* A timelapse_capture that leaves the annotation of a frame out.
TAnnotateLeftOut ==
  /\ Running /\ pc = "t_annotate"
  /\ pc' = IF variant = "pi4" /\ args.build_index THEN "t_index" ELSE "t_sleep"
  /\ UNCHANGED <<cfgVars, dirstate, scp_config, site, upfile, pending, i, fname, idx, entries,
                 fn, k, outdir, log, indexPage, thumbnail, clock, picam2, calls, faults,
                 exitcode, interrupts, registered, cbVars>>

\* annotated = _annotate_image_with_timestamp(fname, text=ts_text)
TAnnotate ==
  /\ Running /\ pc = "t_annotate"
  /\ outdir' = DirAfterAnnotate(fname)
  /\ log' = Append(log, MainEv("annotate", fname, AnnotateOk, 0))
  /\ pc' = IF variant = "pi4" /\ args.build_index THEN "t_index" ELSE "t_sleep"
  /\ UNCHANGED <<cfgVars, dirstate, scp_config, site, upfile, pending, i, fname, idx, entries,
                 fn, k, indexPage, thumbnail, clock, picam2, calls, faults,
                 exitcode, interrupts, registered, cbVars>>

\* capture_pi4: if build_index: idx = build_index_html(outdir, title=index_title)
TIndex ==
  /\ Running /\ pc = "t_index"
  /\ log' = Append(log, MainEv("index", IndexName, IndexBuilt, 0))
  /\ IF ListEscapes(dirstate) # None
       THEN /\ Raise(ListEscapes(dirstate))
            /\ UNCHANGED <<indexPage, idx, outdir>>
       ELSE /\ indexPage' = PageAfterBuild(ArgsTitle)
            /\ idx' = IdxAfterBuild
            /\ outdir' = DirAfterBuild
            /\ pc' = "t_sleep"
            /\ UNCHANGED <<pending, exitcode, site, upfile>>
  /\ UNCHANGED <<cfgVars, dirstate, scp_config, i, fname, entries,
                 fn, k, thumbnail, clock, picam2, calls, faults,
                 interrupts, registered, cbVars>>

\* i += 1; time.sleep(interval)
TSleep ==
  /\ Running /\ pc = "t_sleep"
  /\ i' = i + 1
  /\ clock' = clock + args.interval
  /\ pc' = "t_loop"
  /\ UNCHANGED <<cfgVars, dirstate, scp_config, site, upfile, pending, fname, idx, entries,
                 fn, k, outdir, indexPage, thumbnail, picam2, log, calls,
                 faults, exitcode, interrupts, registered, cbVars>>


(***************************************************************************)
(* button_capture (capture_pi4): the main thread.                          *)
(***************************************************************************)
\* if not GPIO_AVAILABLE: return;  ensure_outdir; GPIO.setup; add_event_detect
BSetup ==
  /\ Running /\ pc = "b_setup"
  /\ IF ~env.gpio
       THEN /\ pc' = "fin_index"
            /\ UNCHANGED <<dirstate, registered, pending, exitcode, site, upfile>>
       ELSE /\ dirstate' = ensure_outdir(dirstate)
            /\ IF EnsureError(dirstate) # None
                 THEN /\ Raise(EnsureError(dirstate))
                      /\ registered' = registered
                 ELSE /\ registered' = TRUE
                      /\ pc' = "b_wait"
                      /\ UNCHANGED <<pending, exitcode, site, upfile>>
  /\ UNCHANGED <<cfgVars, scp_config, i, fname, idx, entries,
                 fn, k, outdir, indexPage, thumbnail, clock, picam2, log, calls,
                 faults, interrupts, cbVars>>

\* finally: GPIO.cleanup()   (reached when Ctrl-C ends `while True: time.sleep(1)`)
BCleanup ==
  /\ Running /\ pc = "b_cleanup"
  /\ registered' = FALSE
  /\ pc' = "fin_index"
  /\ UNCHANGED <<cfgVars, dirstate, scp_config, site, upfile, pending, i, fname, idx, entries,
                 fn, k, outdir, indexPage, thumbnail, clock, picam2, log, calls,
                 faults, exitcode, interrupts, cbVars>>

(***************************************************************************)
(* main: the finally block (Finalizing).                                   *)
(***************************************************************************)
\* idx = build_index_html(args.outdir, title="Owl Box Timelapse Image Index")
FinIndex ==
  /\ Running /\ pc = "fin_index"
  /\ log' = Append(log, MainEv("index", IndexName, IndexBuilt, 0))
  /\ IF ListEscapes(dirstate) # None
       THEN /\ Raise(ListEscapes(dirstate))
            /\ UNCHANGED <<indexPage, idx, outdir>>
       ELSE /\ indexPage' = PageAfterBuild(FinalTitle)
            /\ idx' = IdxAfterBuild
            /\ outdir' = DirAfterBuild
            /\ pc' = "fin_upidx"
            /\ UNCHANGED <<pending, exitcode, site, upfile>>
  /\ UNCHANGED <<cfgVars, dirstate, scp_config, i, fname, entries,
                 fn, k, thumbnail, clock, picam2, calls, faults,
                 interrupts, registered, cbVars>>

\* A finally block that publishes index.html without looking at the path
\* build_index_html returned.
FinUpIdxUnchecked ==
  /\ Running /\ pc = "fin_upidx"
  /\ IF scp_config # None
       THEN CallUpload(IndexName)
       ELSE /\ pc' = After("fin_upidx")
            /\ UNCHANGED <<site, upfile, calls, log>>
  /\ UNCHANGED <<cfgVars, dirstate, scp_config, pending, i, fname, idx, entries, fn, k,
                 outdir, indexPage, thumbnail, clock, picam2, faults,
                 exitcode, interrupts, registered, cbVars>>

\* if idx and scp_config: _scp_upload(idx, **scp_config)
FinUpIdx ==
  /\ Running /\ pc = "fin_upidx"
  /\ IF idx # NoName /\ scp_config # None
       THEN CallUpload(idx)
       ELSE /\ pc' = After("fin_upidx")
            /\ UNCHANGED <<site, upfile, calls, log>>
  /\ UNCHANGED <<cfgVars, dirstate, scp_config, pending, i, fname, idx, entries, fn, k,
                 outdir, indexPage, thumbnail, clock, picam2, faults,
                 exitcode, interrupts, registered, cbVars>>

\* cap_pi6: entries = [...listdir...]; entries.sort(key=getmtime, reverse=True)
FinList ==
  /\ Running /\ pc = "fin_list"
  /\ IF ListEscapes(dirstate) # None
       THEN /\ Raise(ListEscapes(dirstate))
            /\ UNCHANGED <<entries, k>>
       ELSE /\ entries' = EntriesOf(outdir, dirstate)
            /\ k' = 1
            /\ pc' = "fin_loop"
            /\ UNCHANGED <<pending, exitcode, site, upfile>>
  /\ UNCHANGED <<cfgVars, dirstate, scp_config, i, fname, idx, fn,
                 outdir, indexPage, thumbnail, clock, picam2, log, calls, faults,
                 interrupts, registered, cbVars>>

\* cap_pi6: for fn in entries: fn = args.outdir + "/" + fn; _scp_upload(fn, **scp_config)
\* (`**scp_config` with scp_config None is a TypeError)
FinLoop ==
  /\ Running /\ pc = "fin_loop"
  /\ IF k <= Len(entries)
       THEN /\ fn' = entries[k]
            /\ k' = k + 1
            /\ IF scp_config # None
                 THEN /\ CallUpload(entries[k])
                      /\ UNCHANGED <<pending, exitcode>>
                 ELSE /\ Raise("TypeError")
                      /\ UNCHANGED <<calls, log>>
       ELSE /\ pc' = "fin_copy"
            /\ UNCHANGED <<fn, k, site, upfile, calls, log, pending, exitcode>>
  /\ UNCHANGED <<cfgVars, dirstate, scp_config, i, fname, idx, entries, outdir, indexPage,
                 thumbnail, clock, picam2, faults, interrupts, registered, cbVars>>

\* cap_pi6: shutil.copy2(fn, "thumbnail.jpg")   (fn is unbound when entries is empty)
FinCopy ==
  /\ Running /\ pc = "fin_copy"
  /\ IF fn # NoName
       THEN /\ thumbnail' = [written |-> TRUE, from |-> fn, mtime |-> Mtime(outdir, fn)]
            /\ log' = Append(log, MainEv("copy", fn, TRUE, 0))
            /\ pc' = "fin_upthumb"
            /\ UNCHANGED <<pending, exitcode, site, upfile>>
       ELSE /\ Raise("UnboundLocalError")
            /\ UNCHANGED <<thumbnail, log>>
  /\ UNCHANGED <<cfgVars, dirstate, scp_config, i, fname, idx, entries, fn, k, outdir,
                 indexPage, clock, picam2, calls, faults, interrupts, registered,
                 cbVars>>

\* cap_pi6: _scp_upload("thumbnail.jpg", **scp_config)
FinUpThumb ==
  /\ Running /\ pc = "fin_upthumb"
  /\ IF scp_config # None
       THEN /\ CallUpload(ThumbName)
            /\ UNCHANGED <<pending, exitcode>>
       ELSE /\ Raise("TypeError")
            /\ UNCHANGED <<calls, log>>
  /\ UNCHANGED <<cfgVars, dirstate, scp_config, i, fname, idx, entries, fn, k, outdir,
                 indexPage, thumbnail, clock, picam2, faults, interrupts,
                 registered, cbVars>>

\* end of the finally block: an exception that entered it is raised again
FinEnd ==
  /\ Running /\ pc = "fin_end"
  /\ IF pending # None
       THEN /\ pc' = "done"
            /\ exitcode' = ExitStatus(pending)
       ELSE /\ pc' = "stop"
            /\ exitcode' = exitcode
  /\ UNCHANGED <<cfgVars, dirstate, scp_config, site, upfile, pending, i, fname, idx, entries,
                 fn, k, outdir, indexPage, thumbnail, clock, picam2, log, calls,
                 faults, interrupts, registered, cbVars>>

(***************************************************************************)
(* main: after the try statement.                                          *)
(***************************************************************************)
\* picam2.stop()   (the last statement of capture_pi4's main)
Stop ==
  /\ Running /\ pc = "stop"
  /\ picam2' = "stopped"
  /\ pc' = IF variant = "pi6" THEN "close" ELSE "done"
  /\ exitcode' = IF variant = "pi6" THEN exitcode ELSE 0
  /\ UNCHANGED <<cfgVars, dirstate, scp_config, site, upfile, pending, i, fname, idx, entries,
                 fn, k, outdir, indexPage, thumbnail, clock, log, calls, faults,
                 interrupts, registered, cbVars>>

\* cap_pi6: picam2.close()
Close ==
  /\ Running /\ pc = "close"
  /\ picam2' = "closed"
  /\ pc' = "grace"
  /\ UNCHANGED <<cfgVars, dirstate, scp_config, site, upfile, pending, i, fname, idx, entries,
                 fn, k, outdir, indexPage, thumbnail, clock, log, calls, faults,
                 exitcode, interrupts, registered, cbVars>>

\* cap_pi6: time.sleep(5), then main returns
Grace ==
  /\ Running /\ pc = "grace"
  /\ clock' = clock + GraceDelay
  /\ pc' = "done"
  /\ exitcode' = 0
  /\ UNCHANGED <<cfgVars, dirstate, scp_config, site, upfile, pending, i, fname, idx, entries,
                 fn, k, outdir, indexPage, thumbnail, picam2, log, calls, faults,
                 interrupts, registered, cbVars>>

(***************************************************************************)
(* Ctrl-C: KeyboardInterrupt raised in the main thread at the statement it *)
(* is about to run.                                                        *)
(***************************************************************************)
Interrupt ==
  /\ Running /\ pc # "done"
  /\ interrupts < MaxInterrupts
  /\ interrupts' = interrupts + 1
  /\ log' = Append(log, MainEv("interrupt", NoName, TRUE, 0))
  /\ Raise("KeyboardInterrupt")
  /\ UNCHANGED <<cfgVars, dirstate, scp_config, i, fname, idx, entries, fn, k, outdir,
                 indexPage, thumbnail, clock, picam2, calls, faults,
                 registered, cbVars>>


(***************************************************************************)
(* button_capture.handler (capture_pi4): the GPIO callback thread.         *)
(***************************************************************************)
HCallUpload(path) ==
  /\ hsite' = hpc
  /\ hupfile' = [path |-> path, call |-> hcalls + 1]
  /\ hcalls' = hcalls + 1
  /\ hlog' = Append(hlog, CbEv("publish", path, TRUE, hcalls + 1, hpc))
  /\ hpc' = "hup_which"

\* An event source that starts the callback of a press while the callback of
\* an earlier press is still running.
TriggerReentrant ==
  /\ Running /\ registered
  /\ triggers < MaxTriggers
  /\ triggers' = triggers + 1
  /\ clock' = clock + env.pace
  /\ hpc' = "h_capture"
  /\ UNCHANGED <<cfgVars, dirstate, scp_config, mainVars, outdir, indexPage, thumbnail, picam2,
                 log, calls, faults, exitcode, interrupts, registered, hsite, hfname,
                 hidx, hupfile, hlog, hcalls>>

\* a falling edge outside the bounce window starts handler(channel)
Trigger ==
  /\ Running /\ registered /\ hpc = "idle"
  /\ triggers < MaxTriggers
  /\ triggers' = triggers + 1
  /\ clock' = clock + env.pace
  /\ hpc' = "h_capture"
  /\ UNCHANGED <<cfgVars, dirstate, scp_config, mainVars, outdir, indexPage, thumbnail, picam2,
                 log, calls, faults, exitcode, interrupts, registered, hsite, hfname,
                 hidx, hupfile, hlog, hcalls>>

\* fname = timestamped_filename(outdir, prefix="btn"); picam2.capture_file(fname)
HCapture ==
  /\ Running /\ hpc = "h_capture"
  /\ LET nm == timestamped_filename(variant, PlainPrefix("btn"), clock)
     IN  /\ hfname' = nm
         /\ IF env.camera = "ok"
              THEN /\ outdir' = WriteFile(outdir, nm, clock, env.listing)
                   /\ hlog' = Append(hlog, CbEv("capture", nm, TRUE, 0, hpc))
                   /\ hpc' = "h_annotate"
              ELSE /\ outdir' = outdir
                   /\ hlog' = Append(hlog, CbEv("capture", nm, FALSE, 0, hpc))
                   /\ hpc' = "idle"
  /\ UNCHANGED <<cfgVars, dirstate, scp_config, mainVars, indexPage, thumbnail, clock, picam2,
                 log, calls, faults, exitcode, interrupts, registered, triggers, hsite,
                 hidx, hupfile, hcalls>>

\* A handler that publishes the file as the driver wrote it.
HAnnotateLeftOut ==
  /\ Running /\ hpc = "h_annotate"
  /\ hpc' = "h_upload"
  /\ UNCHANGED <<cfgVars, dirstate, scp_config, mainVars, outdir, indexPage, thumbnail, clock,
                 picam2, log, hlog, calls, faults, exitcode, interrupts, registered, triggers,
                 hsite, hfname, hidx, hupfile, hcalls>>

\* annotated = _annotate_image_with_timestamp(fname, text=ts_text)
HAnnotate ==
  /\ Running /\ hpc = "h_annotate"
  /\ outdir' = DirAfterAnnotate(hfname)
  /\ hlog' = Append(hlog, CbEv("annotate", hfname, AnnotateOk, 0, hpc))
  /\ hpc' = "h_upload"
  /\ UNCHANGED <<cfgVars, dirstate, scp_config, mainVars, indexPage, thumbnail, clock, picam2,
                 log, calls, faults, exitcode, interrupts, registered, triggers, hsite,
                 hfname, hidx, hupfile, hcalls>>

\* A handler that leaves the publish of the captured file to Finalizing.
HUploadDeferred ==
  /\ Running /\ hpc = "h_upload"
  /\ hpc' = HAfter("h_upload")
  /\ UNCHANGED <<hsite, hupfile, hcalls, hlog>>
  /\ UNCHANGED <<cfgVars, dirstate, scp_config, mainVars, outdir, indexPage, thumbnail, clock,
                 picam2, log, calls, faults, exitcode, interrupts, registered, triggers,
                 hfname, hidx>>

\* if scp_config: _scp_upload(fname, **scp_config)
HUpload ==
  /\ Running /\ hpc = "h_upload"
  /\ IF scp_config # None
       THEN HCallUpload(hfname)
       ELSE /\ hpc' = HAfter("h_upload")
            /\ UNCHANGED <<hsite, hupfile, hcalls, hlog>>
  /\ UNCHANGED <<cfgVars, dirstate, scp_config, mainVars, outdir, indexPage, thumbnail, clock,
                 picam2, log, calls, faults, exitcode, interrupts, registered, triggers,
                 hfname, hidx>>

\* A handler that builds the index page whatever --build-index says.
HIndexAlways ==
  /\ Running /\ hpc = "h_index"
  /\ hlog' = Append(hlog, CbEv("index", IndexName, IndexBuilt, 0, hpc))
  /\ IF ListEscapes(dirstate) # None
       THEN /\ hpc' = "idle"
            /\ UNCHANGED <<indexPage, hidx, outdir>>
       ELSE /\ indexPage' = PageAfterBuild(ArgsTitle)
            /\ hidx' = IdxAfterBuild
            /\ outdir' = DirAfterBuild
            /\ hpc' = "h_upidx"
  /\ UNCHANGED <<cfgVars, dirstate, scp_config, mainVars, thumbnail, clock, picam2,
                 log, calls, faults, exitcode, interrupts, registered, triggers, hsite,
                 hfname, hupfile, hcalls>>

\* if build_index: idx = build_index_html(outdir, title=index_title)
HIndex ==
  /\ Running /\ hpc = "h_index"
  /\ IF ~args.build_index
       THEN /\ hpc' = "idle"
            /\ UNCHANGED <<indexPage, hidx, hlog, outdir>>
     ELSE /\ hlog' = Append(hlog, CbEv("index", IndexName, IndexBuilt, 0, hpc))
          /\ IF ListEscapes(dirstate) # None
               THEN /\ hpc' = "idle"        \* the exception ends the callback
                    /\ UNCHANGED <<indexPage, hidx, outdir>>
               ELSE /\ indexPage' = PageAfterBuild(ArgsTitle)
                    /\ hidx' = IdxAfterBuild
                    /\ outdir' = DirAfterBuild
                    /\ hpc' = "h_upidx"
  /\ UNCHANGED <<cfgVars, dirstate, scp_config, mainVars, thumbnail, clock, picam2,
                 log, calls, faults, exitcode, interrupts, registered, triggers, hsite,
                 hfname, hupfile, hcalls>>

\* if idx and scp_config: _scp_upload(idx, **scp_config)
HUpIdx ==
  /\ Running /\ hpc = "h_upidx"
  /\ IF hidx # NoName /\ scp_config # None
       THEN HCallUpload(hidx)
       ELSE /\ hpc' = HAfter("h_upidx")
            /\ UNCHANGED <<hsite, hupfile, hcalls, hlog>>
  /\ UNCHANGED <<cfgVars, dirstate, scp_config, mainVars, outdir, indexPage, thumbnail, clock,
                 picam2, log, calls, faults, exitcode, interrupts, registered, triggers,
                 hfname, hidx>>

HUpWhich ==
  /\ Running /\ hpc = "hup_which"
  /\ hpc' = IF env.scp_tool THEN "hup_ensure" ELSE HAfter(hsite)
  /\ hsite' = IF env.scp_tool THEN hsite ELSE None
  /\ hupfile' = IF env.scp_tool THEN hupfile ELSE NoFile
  /\ UNCHANGED <<cfgVars, dirstate, scp_config, mainVars, outdir, indexPage, thumbnail, clock,
                 picam2, log, calls, faults, exitcode, interrupts, registered,
                 triggers, hfname, hidx, hlog, hcalls>>

HUpEnsure ==
  /\ Running /\ hpc = "hup_ensure"
  /\ \E ok \in RemoteOutcomes :
       /\ hlog' = Append(hlog, CbEv("ensure", hupfile.path, ok, hupfile.call, hsite))
       /\ CountFault(ok)
       /\ hpc' = IF ok THEN "hup_scp" ELSE HAfter(hsite)
       /\ hsite' = IF ok THEN hsite ELSE None
       /\ hupfile' = IF ok THEN hupfile ELSE NoFile
  /\ UNCHANGED <<cfgVars, dirstate, scp_config, mainVars, outdir, indexPage, thumbnail, clock,
                 picam2, log, calls, exitcode, interrupts, registered, triggers, hfname,
                 hidx, hcalls>>

HUpScp ==
  /\ Running /\ hpc = "hup_scp"
  /\ \E ok \in RemoteOutcomes :
       /\ hlog' = Append(hlog, CbEv("scp", hupfile.path, ok, hupfile.call, hsite))
       /\ CountFault(ok)
  /\ hpc' = HAfter(hsite)
  /\ hsite' = None
  /\ hupfile' = NoFile
  /\ UNCHANGED <<cfgVars, dirstate, scp_config, mainVars, outdir, indexPage, thumbnail, clock,
                 picam2, log, calls, exitcode, interrupts, registered, triggers, hfname,
                 hidx, hcalls>>

(***************************************************************************)
(* The specification.                                                      *)
(***************************************************************************)
Next ==
  \/ Parse \/ NewCamera \/ Start \/ Dispatch
  \/ SCapture \/ SRotate \/ SAnnotate \/ SUpload \/ SIndex \/ SUpIdx
  \/ TEnter \/ TLoop \/ TCapture \/ TAnnotate \/ TIndex \/ TSleep
  \/ BSetup \/ BCleanup
  \/ FinIndex \/ FinUpIdx \/ FinList \/ FinLoop \/ FinCopy \/ FinUpThumb \/ FinEnd
  \/ Stop \/ Close \/ Grace
  \/ UpWhich \/ UpEnsure \/ UpScp
  \/ Interrupt
  \/ Trigger \/ HCapture \/ HAnnotate \/ HUpload \/ HIndex \/ HUpIdx
  \/ HUpWhich \/ HUpEnsure \/ HUpScp

Spec == Init /\ [][Next]_vars


(***************************************************************************)
(* Reading the histories.                                                  *)
(***************************************************************************)
Events(L, op) == SelectSeq(L, LAMBDA e : e.op = op)
EventsIn(L, op, phase) == SelectSeq(L, LAMBDA e : e.op = op /\ e.phase = phase)
EventsOf(L, op, file) == SelectSeq(L, LAMBDA e : e.op = op /\ e.file = file)
EventsOfIn(L, op, file, phase) ==
  SelectSeq(L, LAMBDA e : e.op = op /\ e.file = file /\ e.phase = phase)

\* capture requests the driver answered
Captured(L) == SelectSeq(L, LAMBDA e : e.op = "capture" /\ e.ok)

MediaNames(dir) == {dir[j].name : j \in {n \in 1..Len(dir) : dir[n].name.ext \in image_exts}}

\* Ctrl-C arrived only where the mode expects it: inside the loop of a series,
\* or in the wait of button mode
CancelledOnly ==
  \A j \in 1..Len(log) :
    log[j].op = "interrupt" => log[j].at \in TimedTryLabels \cup {"b_wait"}

NoInterruptWhile(phase) ==
  \A j \in 1..Len(log) : log[j].op = "interrupt" => log[j].phase # phase

\* the command line was accepted, the driver answers every request, and
\* --outdir is a directory or can be made one
ValidRun ==
  /\ args.scp => Missing(args) = {}
  /\ env.camera = "ok"
  /\ dirstate \in {"dir", "missing"}

(***************************************************************************)
(* C1: every call of _scp_upload makes at most one directory-ensure call   *)
(* and at most one transfer, the ensure first; a transfer is made only     *)
(* after the ensure of the same call, for the same file, succeeded, so a   *)
(* failed ensure is followed by no transfer of that call.  In a thread's   *)
(* history: publish calls are numbered in order, an ensure directly        *)
(* follows the publish entry of its call, and a transfer directly follows  *)
(* a successful ensure of its call and file.                               *)
(***************************************************************************)
C1_PublishEnsuresThenCopies ==
  \A L \in {log, hlog} :
    \A b \in 1..Len(L) :
      /\ L[b].op = "publish" =>
           L[b].call = Len(Events(SubSeq(L, 1, b), "publish"))
      /\ L[b].op = "ensure" =>
           /\ b > 1
           /\ L[b - 1].op = "publish"
           /\ L[b - 1].call = L[b].call /\ L[b - 1].file = L[b].file
      /\ L[b].op = "scp" =>
           /\ b > 1
           /\ L[b - 1].op = "ensure" /\ L[b - 1].ok
           /\ L[b - 1].call = L[b].call /\ L[b - 1].file = L[b].file

\* a finished run in which one publish call stopped at a failed ensure and
\* another one went on to copy its file
C1_Witness ==
  /\ Exited /\ exitcode = 0
  /\ \E a, b \in 1..Len(log) :
       /\ log[a].op = "ensure" /\ ~log[a].ok
       /\ log[b].op = "scp" /\ log[b].ok

(***************************************************************************)
(* C2: with a remote target configured and the remote host unreachable, a  *)
(* run that is not interrupted keeps the file of every capture request,    *)
(* has only failed publish steps, runs Finalizing, releases the driver and *)
(* exits with status 0.                                                    *)
(***************************************************************************)
C2_UnreachableRemoteStillSucceeds ==
  (Exited /\ ValidRun /\ scp_config # None /\ env.remote = "down" /\ CancelledOnly)
    => /\ \A j \in 1..Len(Captured(log)) : Captured(log)[j].file \in Names(outdir)
       /\ \A j \in 1..Len(Captured(hlog)) : Captured(hlog)[j].file \in Names(outdir)
       /\ \A j \in 1..Len(log) : log[j].op \in {"ensure", "scp"} => ~log[j].ok
       /\ Len(EventsIn(log, "index", "Finalizing")) = 1
       /\ Stopped
       /\ exitcode = 0

(***************************************************************************)
(* C3: in a timed series an interrupt that arrives during Capturing takes  *)
(* the main thread to the start of Finalizing and removes no file; no step *)
(* ever removes a file; and when such a run ends without a further         *)
(* interrupt, Finalizing has built the index and, in cap_pi6 with a remote *)
(* target, has made a publish call for every media file of the directory.  *)
(***************************************************************************)
C3_InterruptLeadsToFinalizing ==
  /\ [][(args.mode = "timelapse" /\ Capturing /\ interrupts' = interrupts + 1)
          => (pc' = "fin_index" /\ exitcode' = -1)]_vars
  /\ [][Names(outdir) \subseteq Names(outdir')]_vars
  /\ []((args.mode = "timelapse" /\ Exited /\ interrupts = 1
           /\ ~NoInterruptWhile("Capturing"))
          => /\ Len(EventsIn(log, "index", "Finalizing")) = 1
             /\ (variant = "pi6" /\ scp_config # None /\ dirstate = "dir") =>
                  \A nm \in MediaNames(outdir) :
                    Len(EventsOfIn(log, "publish", nm, "Finalizing")) >= 1)

\* a series of cap_pi6 interrupted in its sleep after a frame was written,
\* finished, with the frame republished in Finalizing
C3_Witness ==
  /\ variant = "pi6" /\ args.mode = "timelapse" /\ Exited /\ interrupts = 1
  /\ \E j \in 1..Len(log) : log[j].op = "interrupt" /\ log[j].at = "t_sleep"
  /\ Len(Captured(log)) >= 1
  /\ Captured(log)[1].file \in Names(outdir)
  /\ Len(EventsOfIn(log, "publish", Captured(log)[1].file, "Finalizing")) = 1


\* a publish call was made in Finalizing for every media file of the directory
RepublishedAll ==
  \A nm \in MediaNames(outdir) :
    Len(EventsOfIn(log, "publish", nm, "Finalizing")) >= 1

(***************************************************************************)
(* C4, as the specification has it: when a run with a remote target ends   *)
(* normally, a publish call was made during Finalizing for every media     *)
(* file that is in the output directory.                                   *)
(***************************************************************************)
C4_FinalizingRepublishesAll ==
  (Exited /\ exitcode = 0 /\ scp_config # None) => RepublishedAll

\* the republish loop of cap_pi6 has run to its end
PastRepublish ==
  \/ EffPc \in {"fin_copy", "fin_upthumb", "fin_end"} \cup PostLabels
  \/ Exited /\ exitcode = 0

(***************************************************************************)
(* C4, for cap_pi6 alone: with a remote target configured, once the        *)
(* republish loop of Finalizing has ended, exactly one publish call was    *)
(* made during Finalizing for every media file of the output directory,    *)
(* whatever happened to the file during Capturing and whatever the result  *)
(* of the other publish calls.  (capture_pi4 publishes only the index page *)
(* in Finalizing.)                                                         *)
(***************************************************************************)
C4_Pi6FinalizingRepublishesAll ==
  (variant = "pi6" /\ scp_config # None /\ PastRepublish) =>
    \A nm \in MediaNames(outdir) :
      Len(EventsOfIn(log, "publish", nm, "Finalizing")) = 1

\* cap_pi6, single shot: the image was published in Capturing already, its
\* republish failed at the ensure, and the older files were still published
C4_Witness ==
  /\ variant = "pi6" /\ scp_config # None /\ Exited /\ exitcode = 0
  /\ Len(Captured(log)) = 1
  /\ Len(EventsOfIn(log, "scp", Captured(log)[1].file, "Capturing")) = 1
  /\ \E j \in 1..Len(log) :
       /\ log[j].op = "ensure" /\ ~log[j].ok /\ log[j].phase = "Finalizing"
       /\ log[j].file = Captured(log)[1].file
  /\ Len(EventsOfIn(log, "scp", OldName(1), "Finalizing")) = 1
  /\ Len(EventsOfIn(log, "scp", OldName(2), "Finalizing")) = 1

(***************************************************************************)
(* C5: in a run without Ctrl-C the file copied to thumbnail.jpg is one with *)
(* the greatest modification time among the media files of the output      *)
(* directory.                                                              *)
(***************************************************************************)
C5_ThumbnailIsNewest ==
  (thumbnail.written /\ interrupts = 0) =>
    \A j \in 1..Len(outdir) :
      outdir[j].name.ext \in image_exts => outdir[j].mtime <= thumbnail.mtime

FourDigits(n) == <<0, 0, 0, n>>     \* n < 10

SeriesOver == EffPc \notin (PreLabels \cup CapLabels)

(***************************************************************************)
(* C6: in a timed series with --count N the j-th capture request goes to a *)
(* file whose prefix is img followed by j-1 as four digits, at most N      *)
(* requests are made, and when the series has ended without an interrupt   *)
(* exactly N requests were made and their N distinct files are in the      *)
(* output directory.                                                       *)
(***************************************************************************)
C6_SeriesMakesCountFiles ==
  (args.mode = "timelapse" /\ args.count # NoCount /\ ValidRun) =>
    LET cs == Events(log, "capture")
    IN  /\ Len(cs) <= args.count
        /\ \A j \in 1..Len(cs) :
             /\ cs[j].file.prefix.base = "img"
             /\ cs[j].file.prefix.num = FourDigits(j - 1)
             /\ cs[j].file \in Names(outdir)
        /\ (SeriesOver /\ interrupts = 0) =>
             /\ Len(cs) = args.count
             /\ Cardinality({cs[j].file : j \in 1..Len(cs)}) = args.count
             /\ Cardinality(MediaNames(outdir) \ MediaNames(OldFiles)) = args.count

\* a series of the largest count, over, with no interrupt
C6_Witness ==
  /\ args.mode = "timelapse" /\ args.count = MaxCount /\ env.camera = "ok"
  /\ SeriesOver /\ interrupts = 0
  /\ Len(Events(log, "capture")) = MaxCount

(***************************************************************************)
(* C7: a timed series with a finite count, not interrupted, on a host      *)
(* where every driver and remote call returns, ends with the driver        *)
(* released (Stopped) after Finalizing.                                    *)
(***************************************************************************)
C7_FiniteSeriesReachesStopped ==
  (args.mode = "timelapse" /\ args.count # NoCount /\ ValidRun /\ interrupts = 0
     /\ Exited)
    => (Stopped /\ Len(EventsIn(log, "index", "Finalizing")) = 1)

\* capture requests of both threads that the driver answered
AllCaptures == Captured(log) \o Captured(hlog)

(***************************************************************************)
(* C8: two capture requests of one run that the driver answered never got  *)
(* the same file path.                                                     *)
(***************************************************************************)
C8_CapturePathsDiffer ==
  \A a, b \in 1..Len(AllCaptures) :
    a # b => AllCaptures[a].file # AllCaptures[b].file

(***************************************************************************)
(* C9, over the whole run: in a single-shot run with a remote target, on a *)
(* host where every call succeeds, that ends normally without Ctrl-C,     *)
(* there is exactly one ensure and one copy for the image file, and for    *)
(* the index page one of each when --build-index is given and none         *)
(* otherwise.                                                              *)
(***************************************************************************)
C9_SingleShotRemoteCalls ==
  (args.mode = "single" /\ scp_config # None /\ env = Healthy /\ interrupts = 0
     /\ Exited /\ exitcode = 0) =>
    /\ Len(EventsOf(log, "ensure", fname)) = 1
    /\ Len(EventsOf(log, "scp", fname)) = 1
    /\ Len(EventsOf(log, "ensure", IndexName)) = (IF args.build_index THEN 1 ELSE 0)
    /\ Len(EventsOf(log, "scp", IndexName)) = (IF args.build_index THEN 1 ELSE 0)

Ensures(file, phase) == EventsOfIn(log, "ensure", file, phase)
Copies(file, phase) == EventsOfIn(log, "scp", file, phase)
Publishes(file, phase) == EventsOfIn(log, "publish", file, phase)

(***************************************************************************)
(* C9, amended: in a single-shot run with a remote target whose capture    *)
(* succeeded and that was not interrupted during Capturing, single_capture *)
(* itself makes exactly one publish call for the image file, and one for   *)
(* the index page exactly when --build-index is given and the page was     *)
(* written; each publish call makes one ensure when the scp tool exists    *)
(* and one copy when that ensure succeeded.  Finalizing then publishes the *)
(* index page once more whenever it was written, with or without           *)
(* --build-index, and cap_pi6 publishes the image file a second time.      *)
(***************************************************************************)
C9_SingleShotRemoteCallsByPhase ==
  (args.mode = "single" /\ scp_config # None /\ Len(Captured(log)) = 1
     /\ NoInterruptWhile("Capturing") /\ SeriesOver) =>
    /\ Len(Publishes(fname, "Capturing")) = 1
    /\ Len(Ensures(fname, "Capturing")) = (IF env.scp_tool THEN 1 ELSE 0)
    /\ Len(Copies(fname, "Capturing")) =
         (IF Len(Ensures(fname, "Capturing")) = 1 /\ Ensures(fname, "Capturing")[1].ok
            THEN 1 ELSE 0)
    /\ Len(Publishes(IndexName, "Capturing")) =
         (IF args.build_index /\ IndexBuilt THEN 1 ELSE 0)
    /\ Len(Ensures(IndexName, "Capturing")) =
         (IF args.build_index /\ IndexBuilt /\ env.scp_tool THEN 1 ELSE 0)
    /\ Len(Copies(IndexName, "Capturing")) <= Len(Ensures(IndexName, "Capturing"))
    /\ (Exited /\ exitcode = 0) =>
         /\ Len(Publishes(IndexName, "Finalizing")) = (IF IndexBuilt THEN 1 ELSE 0)
         /\ Len(Publishes(fname, "Finalizing")) = (IF variant = "pi6" THEN 1 ELSE 0)

\* a finished single shot without --build-index on a healthy host: one pair
\* of calls for the image in Capturing, and still a pair for the index page
C9_Witness ==
  /\ args.mode = "single" /\ scp_config # None /\ ~args.build_index
  /\ Exited /\ exitcode = 0
  /\ Len(Ensures(fname, "Capturing")) = 1 /\ Len(Copies(fname, "Capturing")) = 1
  /\ Len(EventsOf(log, "scp", IndexName)) = 1

(***************************************************************************)
(* C10: a run with a valid command line whose captures all succeed, and    *)
(* that is either not interrupted or cancelled where its mode waits for    *)
(* Ctrl-C, ends with exit status 0.                                        *)
(***************************************************************************)
C10_NormalRunExitsZero ==
  (Exited /\ ValidRun /\ CancelledOnly) => exitcode = 0


(***************************************************************************)
(* C11: when --scp is given and one of --remote-host, --remote-user,       *)
(* --remote-path is missing, the process never gets past the validation:   *)
(* no driver object is created or started, no capture request, index       *)
(* build or remote call is made, and the process ends with a status that   *)
(* is not 0.                                                               *)
(***************************************************************************)
C11_MissingRemoteOptionAborts ==
  (args.scp /\ Missing(args) # {}) =>
    /\ picam2 = "none"
    /\ pc \in {"parse", "done"}
    /\ scp_config = None
    /\ Events(log, "interrupt") = log /\ hlog = <<>>
    /\ calls = 0 /\ hcalls = 0
    /\ outdir \in InitialDirs
    /\ Exited => exitcode > 0

\* the run of a command line with --scp and only --remote-path missing has ended
C11_Witness ==
  /\ args.scp /\ Missing(args) = {"--remote-path"}
  /\ Exited /\ exitcode = 2 /\ interrupts = 0

\* the step appends to L a rotation or annotation that failed
FailedDecoration(L, M) ==
  /\ Len(M) = Len(L) + 1
  /\ M[Len(M)].op \in {"rotate", "annotate"}
  /\ ~M[Len(M)].ok

(***************************************************************************)
(* C12: a rotation or annotation that fails raises nothing: the step, in   *)
(* the main thread or in the button callback, goes on to the statement     *)
(* that follows it with no exception pending and no exit status set, and   *)
(* the captured file is still in the directory.  The rest of the capture   *)
(* is then carried out: in a run that is not interrupted a single shot     *)
(* with a remote target makes its publish call for the file, and a timed   *)
(* series with --count N still makes its N captures.                       *)
(***************************************************************************)
C12_AnnotationFailureIsAbsorbed ==
  /\ [][FailedDecoration(log, log') =>
          /\ pending' = pending /\ exitcode' = exitcode
          /\ pc' \in {"s_annotate", "s_upload", "t_index", "t_sleep"}
          /\ log'[Len(log')].file \in Names(outdir')]_vars
  /\ [][FailedDecoration(hlog, hlog') =>
          /\ pending' = pending /\ exitcode' = exitcode /\ pc' = pc
          /\ hpc' = "h_upload"
          /\ hlog'[Len(hlog')].file \in Names(outdir')]_vars
  /\ []((env.annot = "fails" /\ ValidRun /\ interrupts = 0 /\ SeriesOver)
          => /\ (args.mode = "single" /\ scp_config # None)
                  => Len(EventsOfIn(log, "publish", fname, "Capturing")) = 1
             /\ (args.mode = "timelapse" /\ args.count # NoCount)
                  => Len(Captured(log)) = args.count
             /\ \A j \in 1..Len(Captured(log)) :
                  Captured(log)[j].file \in Names(outdir))

\* a single shot whose annotation failed was published all the same and the
\* run ended with status 0
C12_Witness ==
  /\ env.annot = "fails" /\ args.mode = "single" /\ scp_config # None
  /\ Len(Events(log, "annotate")) = 1 /\ ~Events(log, "annotate")[1].ok
  /\ Len(EventsOfIn(log, "scp", fname, "Capturing")) = 1
  /\ fname \in Names(outdir)
  /\ Exited /\ exitcode = 0

\* the publish calls the callback made for captured files
FilePublishes(L) == SelectSeq(L, LAMBDA e : e.op = "publish" /\ e.file # IndexName)

(***************************************************************************)
(* C13: in button mode every capture request is made by the callback, at   *)
(* most one per trigger.  In the callback's history a capture that         *)
(* succeeded is followed at once by the annotation of the same file and,   *)
(* with a remote target, by the publish call for that file.  Whenever the  *)
(* callback has returned there has been exactly one capture request per    *)
(* trigger, one annotation per captured file and, with a remote target,    *)
(* one publish call per captured file (none without).                      *)
(***************************************************************************)
C13_TriggerCapturesAnnotatesPublishes ==
  /\ Len(Events(hlog, "capture")) <= triggers
  /\ args.mode = "button" => Events(log, "capture") = <<>>
  /\ \A j \in 1..Len(hlog) :
       (hlog[j].op = "capture" /\ hlog[j].ok) =>
         /\ j + 1 <= Len(hlog) =>
              hlog[j + 1].op = "annotate" /\ hlog[j + 1].file = hlog[j].file
         /\ (scp_config # None /\ j + 2 <= Len(hlog)) =>
              hlog[j + 2].op = "publish" /\ hlog[j + 2].file = hlog[j].file
  /\ hpc = "idle" =>
       /\ Len(Events(hlog, "capture")) = triggers
       /\ Len(Events(hlog, "annotate")) = Len(Captured(hlog))
       /\ Len(FilePublishes(hlog)) = (IF scp_config # None THEN Len(Captured(hlog)) ELSE 0)

\* two presses ten minutes apart, both callbacks returned, each file copied
C13_Witness ==
  /\ triggers = 2 /\ hpc = "idle" /\ scp_config # None
  /\ Len(Captured(hlog)) = 2 /\ Len(Events(hlog, "annotate")) = 2
  /\ Len(FilePublishes(hlog)) = 2 /\ Len(Events(hlog, "scp")) >= 2
  /\ Captured(hlog)[1].file # Captured(hlog)[2].file

\* the events of L that come before position j
Before(L, j) == SubSeq(L, 1, j - 1)

IndexStep ==
  \/ Len(log') = Len(log) + 1 /\ log'[Len(log')].op = "index"
  \/ Len(hlog') = Len(hlog) + 1 /\ hlog'[Len(hlog')].op = "index"

(***************************************************************************)
(* C15: a call of build_index_html leaves the sorted entry list of the     *)
(* directory as it found it (the page it writes is no entry), so a second  *)
(* call on the directory it leaves composes the tiles the first one wrote. *)
(***************************************************************************)
C15_IndexBuildIsIdempotent ==
  [][IndexStep =>
       /\ SortedEntries(outdir') = SortedEntries(outdir)
       /\ IndexBuilt =>
            /\ IndexName \in Names(outdir')
            /\ build_index_html(variant, outdir', FinalTitle).tiles = indexPage'.tiles]_vars

\* the page was built twice over a directory with three media files, and
\* it is what a further build of the directory would give
C15_Witness ==
  /\ Len(Events(log, "index")) = 2 /\ Events(log, "index")[1].ok
  /\ IndexName \in Names(outdir) /\ Len(SortedEntries(outdir)) = 3
  /\ indexPage.written
  /\ indexPage.tiles = build_index_html(variant, outdir, FinalTitle).tiles

\* the files the tiles of a page link to
TileHrefs(tiles) == {tiles[j].href : j \in 1..Len(tiles)}

(***************************************************************************)
(* C16, as the specification has it: the page a call of build_index_html   *)
(* writes on a healthy host in a run that was not interrupted has one tile *)
(* per media file of the directory and no other tile.                      *)
(***************************************************************************)
C16_OneTilePerMediaFile ==
  [][(IndexStep /\ IndexBuilt /\ env = Healthy /\ interrupts = 0) =>
       /\ Len(indexPage'.tiles) = Cardinality(MediaNames(outdir'))
       /\ TileHrefs(indexPage'.tiles) = MediaNames(outdir')]_vars

(***************************************************************************)
(* C16, with the card of cap_pi6: the page a call of build_index_html      *)
(* writes has one tile per media file of the directory, each showing and   *)
(* linking that file, and no tile for any other file; in cap_pi6 these     *)
(* tiles come after one fixed card that links timelapse.mp4 and shows      *)
(* thumbnail.jpg, whether or not such files exist.  Over a directory       *)
(* without media files the page of capture_pi4 has no tile and the page of *)
(* cap_pi6 has the fixed card alone.                                       *)
(***************************************************************************)
C16_OneTilePerMediaFileAfterFixedCard ==
  [][(IndexStep /\ IndexBuilt) =>
       LET tiles == indexPage'.tiles
           own == IF variant = "pi6" THEN Tail(tiles) ELSE tiles
       IN  /\ variant = "pi6" => (tiles # <<>> /\ Head(tiles) = FixedCard)
           /\ Len(own) = Cardinality(MediaNames(outdir'))
           /\ TileHrefs(own) = MediaNames(outdir')
           /\ \A j \in 1..Len(own) : own[j].img = own[j].href]_vars

\* cap_pi6 wrote a page over a directory that holds three media files, the
\* page itself and a text file: the fixed card and three tiles
C16_Witness ==
  /\ variant = "pi6" /\ indexPage.written
  /\ {IndexName, NotesName} \subseteq Names(outdir)
  /\ Cardinality(MediaNames(outdir)) = 3
  /\ Len(indexPage.tiles) = 4 /\ Head(indexPage.tiles) = FixedCard
  /\ TileHrefs(Tail(indexPage.tiles)) = MediaNames(outdir)

\* the position of file nm among the tiles
TilePos(tiles, nm) == CHOOSE j \in 1..Len(tiles) : tiles[j].href = nm

(***************************************************************************)
(* C17: on the page a call of build_index_html writes, the tiles of the    *)
(* media files stand newest first by modification time, and of two files   *)
(* with the same modification time the one the directory lists first       *)
(* stands first.                                                           *)
(***************************************************************************)
C17_NewestFirstTiesInListingOrder ==
  [][(IndexStep /\ IndexBuilt) =>
       LET tiles == indexPage'.tiles
           dir == outdir'
       IN  \A a, b \in MediaNames(dir) :
             (a # b /\ a \in TileHrefs(tiles) /\ b \in TileHrefs(tiles)) =>
               /\ Mtime(dir, a) > Mtime(dir, b) => TilePos(tiles, a) < TilePos(tiles, b)
               /\ (Mtime(dir, a) = Mtime(dir, b) /\ PosOf(dir, a) < PosOf(dir, b))
                    => TilePos(tiles, a) < TilePos(tiles, b)]_vars

\* a page over two old files of the same mtime and a newer capture that the
\* directory lists first: the capture's tile, then the old files in listing
\* order
C17_Witness ==
  /\ indexPage.written /\ variant = "pi4" /\ Len(indexPage.tiles) = 3
  /\ indexPage.tiles[2].href = OldName(1) /\ indexPage.tiles[3].href = OldName(2)
  /\ Mtime(outdir, OldName(1)) = Mtime(outdir, OldName(2))
  /\ PosOf(outdir, OldName(1)) < PosOf(outdir, OldName(2))
  /\ Mtime(outdir, indexPage.tiles[1].href) > Mtime(outdir, OldName(1))
  /\ PosOf(outdir, indexPage.tiles[1].href) < PosOf(outdir, OldName(1))

\* the last call of build_index_html before position j of L returned a path
BuiltBefore(L, j) ==
  \E m \in 1..(j - 1) :
    /\ L[m].op = "index" /\ L[m].ok
    /\ \A n \in (m + 1)..(j - 1) : L[n].op # "index"

(***************************************************************************)
(* C18: a call of build_index_html that can list the directory but cannot  *)
(* write the page returns None: the caller's idx is None after it and      *)
(* neither the page nor the directory has changed.  No caller publishes    *)
(* the page of such a call: in the main thread and in the callback every   *)
(* publish call for index.html comes after a build that returned a path,   *)
(* with no failed build in between.                                        *)
(***************************************************************************)
C18_UnwrittenIndexIsNotPublished ==
  /\ [][(IndexStep /\ ~WriteOk /\ ListEscapes(dirstate) = None) =>
          /\ Len(log') > Len(log) => idx' = NoName
          /\ Len(hlog') > Len(hlog) => hidx' = NoName
          /\ indexPage' = indexPage /\ outdir' = outdir
          /\ pending' = pending /\ exitcode' = exitcode]_vars
  /\ [](\A j \in 1..Len(log) :
          (log[j].op = "publish" /\ log[j].file = IndexName) => BuiltBefore(log, j))
  /\ [](\A j \in 1..Len(hlog) :
          (hlog[j].op = "publish" /\ hlog[j].file = IndexName) => BuiltBefore(hlog, j))

\* a single shot with a remote target on a host where index.html cannot be
\* written: the image was published, the page never, and the run ended 0
C18_Witness ==
  /\ ~env.writable /\ scp_config # None /\ args.mode = "single" /\ args.build_index
  /\ Exited /\ exitcode = 0
  /\ Len(Events(log, "index")) = 2
  /\ \A j \in 1..Len(Events(log, "index")) : ~Events(log, "index")[j].ok
  /\ Len(EventsOf(log, "publish", fname)) >= 1
  /\ EventsOf(log, "publish", IndexName) = <<>>

(***************************************************************************)
(* C19: a call of build_index_html on an output directory that cannot be   *)
(* listed (made in a run with no interrupt and no exception pending)       *)
(* raises nothing, in the main thread or in the callback, and writes a     *)
(* page that carries the title and no tile for any file of the directory.  *)
(***************************************************************************)
C19_UnreadableDirectoryGivesEmptyPage ==
  [][(IndexStep /\ dirstate # "dir" /\ interrupts = 0 /\ pending = None) =>
       /\ pending' = None /\ exitcode' = exitcode
       /\ Len(hlog') > Len(hlog) => hpc' = "h_upidx"
       /\ indexPage'.written
       /\ indexPage'.title \in {ArgsTitle, FinalTitle}
       /\ TileHrefs(indexPage'.tiles) \subseteq {TimelapseName}]_vars

\* the place of the session state in the order Idle, Capturing, Finalizing,
\* Stopped, read off the statement the main thread is at
Rank(l) == IF l \in PreLabels THEN 0
           ELSE IF l \in CapLabels THEN 1
           ELSE IF l \in FinLabels THEN 2 ELSE 3

\* the capture requests, index builds and publish calls in a history
Work(L) == SelectSeq(L, LAMBDA e : e.op \in {"capture", "index", "publish"})

(***************************************************************************)
(* C20: the session never goes back to an earlier state of Idle,           *)
(* Capturing, Finalizing, Stopped; once Finalizing has begun neither       *)
(* thread issues a capture request; and once the driver is released        *)
(* neither thread makes a capture request, an index build or a publish     *)
(* call.                                                                   *)
(***************************************************************************)
C20_PhasesInOrder ==
  /\ [][Rank(EffPc') >= Rank(EffPc)]_vars
  /\ [][Rank(EffPc) >= 2 =>
          /\ Events(log', "capture") = Events(log, "capture")
          /\ Events(hlog', "capture") = Events(hlog, "capture")]_vars
  /\ [][Stopped => (Work(log') = Work(log) /\ Work(hlog') = Work(hlog))]_vars

(***************************************************************************)
(* C21: the driver is stopped or closed only by the main thread after the  *)
(* finally block has ended with no exception pending; it is closed only    *)
(* once stopped; and a run on a healthy host that is not interrupted and   *)
(* ends with status 0 leaves the driver stopped and then closed.           *)
(***************************************************************************)
C21_DriverStoppedThenClosed ==
  /\ [][(picam2' # picam2 /\ picam2' \in {"stopped", "closed"}) =>
          (pc \in PostLabels /\ pending = None)]_vars
  /\ [][(picam2' # picam2 /\ picam2' = "closed") => picam2 = "stopped"]_vars
  /\ []((Exited /\ exitcode = 0 /\ env = Healthy /\ interrupts = 0) => picam2 = "closed")

\* the captured files of the main thread that have had no annotation attempt
Unannotated == {j \in 1..Len(Captured(log)) :
                  EventsOf(log, "annotate", Captured(log)[j].file) = <<>>}

(***************************************************************************)
(* C22, as the specification has it: once a timed series has left          *)
(* Capturing, every file it captured has had its annotation attempted.     *)
(***************************************************************************)
C22_CancelledBetweenIterations ==
  (args.mode = "timelapse" /\ Rank(EffPc) >= 2) => Unannotated = {}

(***************************************************************************)
(* C22, with the interrupt taken where it arrives: an interrupt during the *)
(* Capturing state of a timed series ends Capturing at the statement the   *)
(* main thread is at, also between the capture of a frame and its          *)
(* annotation, and leaves every file in place.  So in the history of a     *)
(* timed series each capture is followed directly by the annotation of its *)
(* file or by the interrupt, and at most the last captured file is without *)
(* an annotation attempt.                                                  *)
(***************************************************************************)
C22_CancelledAtAnyStatement ==
  /\ [][(args.mode = "timelapse" /\ Capturing /\ interrupts' = interrupts + 1)
          => (~Capturing' /\ outdir' = outdir /\ Captured(log') = Captured(log))]_vars
  /\ [](args.mode = "timelapse" =>
          /\ \A p \in 1..Len(log) :
               (log[p].op = "capture" /\ log[p].ok /\ p < Len(log)) =>
                 \/ log[p + 1].op = "annotate" /\ log[p + 1].file = log[p].file
                 \/ log[p + 1].op = "interrupt"
          /\ Unannotated \subseteq {Len(Captured(log))})

\* a series cancelled between the capture and the annotation of its second
\* frame has ended: the first frame was annotated, the second never
C22_Witness ==
  /\ args.mode = "timelapse" /\ Exited /\ exitcode = 0 /\ interrupts = 1
  /\ Len(Captured(log)) = 2 /\ Unannotated = {2}
  /\ Captured(log)[2].file \in Names(outdir)

\* file f has an event op in L before position p
Earlier(L, op, f, p) == \E q \in 1..(p - 1) : L[q].op = op /\ L[q].file = f

\* the files the thread of history L captured
CapturedFiles(L) == {Captured(L)[j].file : j \in 1..Len(Captured(L))}

\* an interrupt came after the capture of f in L and f was never annotated
CutBeforeAnnotation(L, f) ==
  /\ EventsOf(L, "annotate", f) = <<>>
  /\ \E q \in 1..Len(L) : L[q].op = "interrupt" /\ Earlier(L, "capture", f, q)

\* a rotation comes after the capture and before any annotation of its file
RotationInPlace(L) ==
  \A p \in 1..Len(L) :
    L[p].op = "rotate" =>
      (Earlier(L, "capture", L[p].file, p) /\ ~Earlier(L, "annotate", L[p].file, p))

(***************************************************************************)
(* C23, as the specification has it: in the history of either thread every *)
(* publish call for a file the thread captured comes after an annotation   *)
(* attempt for that file, and every rotation comes after the capture and   *)
(* before any annotation of its file.                                      *)
(***************************************************************************)
C23_PublishedAfterAnnotation ==
  /\ \A p \in 1..Len(log) :
       (log[p].op = "publish" /\ log[p].file \in CapturedFiles(log))
         => Earlier(log, "annotate", log[p].file, p)
  /\ \A p \in 1..Len(hlog) :
       (hlog[p].op = "publish" /\ hlog[p].file \in CapturedFiles(hlog))
         => Earlier(hlog, "annotate", hlog[p].file, p)
  /\ RotationInPlace(log) /\ RotationInPlace(hlog)

(***************************************************************************)
(* C23, with the republish of Finalizing: every rotation comes after the   *)
(* capture and before any annotation of its file; every publish call that  *)
(* single_capture or the callback makes for a file it captured comes after *)
(* the annotation attempt for that file; and a publish call Finalizing     *)
(* makes for a captured file comes after its annotation attempt unless an  *)
(* interrupt cut the sequence off between the capture and the annotation,  *)
(* in which case the file is published without its annotation.             *)
(***************************************************************************)
C23_PublishedAfterAnnotationUnlessCut ==
  /\ \A p \in 1..Len(log) :
       (log[p].op = "publish" /\ log[p].file \in CapturedFiles(log)) =>
         \/ Earlier(log, "annotate", log[p].file, p)
         \/ log[p].phase = "Finalizing" /\ CutBeforeAnnotation(log, log[p].file)
  /\ \A p \in 1..Len(hlog) :
       (hlog[p].op = "publish" /\ hlog[p].file \in CapturedFiles(hlog))
         => Earlier(hlog, "annotate", hlog[p].file, p)
  /\ RotationInPlace(log) /\ RotationInPlace(hlog)

\* a single shot of cap_pi6 with rotation and a remote target: capture,
\* rotation, annotation and publish call, in this order
C23_Witness ==
  /\ variant = "pi6" /\ args.mode = "single" /\ args.rotate = 90 /\ scp_config # None
  /\ Len(log) >= 4
  /\ log[1].op = "capture" /\ log[2].op = "rotate" /\ log[2].ok
  /\ log[3].op = "annotate" /\ log[4].op = "publish" /\ log[4].file = log[1].file
  /\ Exited /\ exitcode = 0

(***************************************************************************)
(* C24: in cap_pi6 with --rotate 90, 180 or 270, on a healthy host, every  *)
(* captured file has been rotated by the time its annotation is attempted, *)
(* in single mode and in a timed series.                                   *)
(***************************************************************************)
C24_EveryCaptureIsRotated ==
  (variant = "pi6" /\ args.rotate \in {90, 180, 270} /\ env = Healthy) =>
    \A p \in 1..Len(log) :
      log[p].op = "annotate" =>
        \E q \in 1..(p - 1) :
          log[q].op = "rotate" /\ log[q].file = log[p].file /\ log[q].ok

\* the index builds and the publish calls for the page in a history
IndexWork(L) ==
  SelectSeq(L, LAMBDA e : e.op = "index" \/ (e.op = "publish" /\ e.file = IndexName))

MaxFrames == 3       \* iterations followed from the frame the series is taken up at

\* frame numbers the series is taken up at, around each growth of the counter
FrameNumbers == {0, 8, 98, 998, 9998, 9999}

\* wall clock at that frame: before a change of second, of minute, of ten minutes
SeriesClocks == {0, 590, 5990}

SeriesInit ==
  /\ variant \in {"pi4", "pi6"}
  /\ args \in ArgSets
  /\ args.mode = "timelapse" /\ args.count = NoCount
  /\ ~args.scp /\ ~args.build_index
  /\ env = Healthy
  /\ scp_config = None
  /\ pc = "t_loop"
  /\ site = None
  /\ upfile = NoFile
  /\ pending = None
  /\ i \in FrameNumbers
  /\ fname = NoName
  /\ idx = NoName
  /\ entries = <<>>
  /\ fn = NoName
  /\ k = 1
  /\ outdir = <<>>
  /\ dirstate = "dir"
  /\ indexPage = NoPage
  /\ thumbnail = NoThumb
  /\ clock \in SeriesClocks
  /\ picam2 = "started"
  /\ log = <<>>
  /\ calls = 0
  /\ faults = 0
  /\ exitcode = -1
  /\ interrupts = 0
  /\ registered = FALSE
  /\ triggers = 0
  /\ hpc = "idle"
  /\ hsite = None
  /\ hfname = NoName
  /\ hidx = NoName
  /\ hupfile = NoFile
  /\ hlog = <<>>
  /\ hcalls = 0

\* one iteration of `while count is None or i < count`
SeriesFrame ==
  /\ Running /\ pc = "t_loop"
  /\ Len(log) < MaxFrames
  /\ LET nm == timestamped_filename(variant, SeqPrefix(i), clock)
     IN  /\ fname' = nm
         /\ outdir' = WriteFile(outdir, nm, clock, env.listing)
         /\ log' = Append(log, MainEv("capture", nm, TRUE, 0))
  /\ i' = i + 1
  /\ clock' = clock + args.interval
  /\ UNCHANGED <<cfgVars, dirstate, scp_config, pc, site, upfile, pending, idx, entries,
                 fn, k, indexPage, thumbnail, picam2, calls, faults, exitcode,
                 interrupts, registered, cbVars>>

LongSeries == SeriesInit /\ [][SeriesFrame]_vars

\* the characters of a file name that tell two names of one session apart:
\* the digits of the prefix, the underscore, the items of the stamp
NameKey(nm) ==
  [j \in 1..Len(nm.prefix.num) |-> 48 + nm.prefix.num[j]]
    \o <<95>> \o [j \in 1..Len(nm.ts) |-> 1000 + nm.ts[j]]

\* a sorts before b, or is b
RECURSIVE LexLeq(_, _)
LexLeq(a, b) ==
  IF a = <<>> THEN TRUE
  ELSE IF b = <<>> THEN FALSE
  ELSE IF Head(a) # Head(b) THEN Head(a) < Head(b)
  ELSE LexLeq(Tail(a), Tail(b))

NonDecreasing(L) ==
  \A j \in 1..(Len(Captured(L)) - 1) :
    LexLeq(NameKey(Captured(L)[j].file), NameKey(Captured(L)[j + 1].file))

(***************************************************************************)
(* C26: the file names of the successive captures of a session, of the     *)
(* main thread and of the callback, never decrease in lexicographic order. *)
(***************************************************************************)
C26_NamesNeverDecrease ==
  NonDecreasing(log) /\ NonDecreasing(hlog)

(***************************************************************************)
(* C27: in a run without --scp, on a healthy host with a readable output   *)
(* directory and no interrupt, Finalizing makes no remote call, and a run  *)
(* that has ended over a directory with media files ended with status 0    *)
(* and the driver released.                                                *)
(***************************************************************************)
C27_FinalizingWithoutRemote ==
  (~args.scp /\ env = Healthy /\ dirstate = "dir" /\ interrupts = 0) =>
    /\ \A p \in 1..Len(log) :
         log[p].phase = "Finalizing" => log[p].op \notin {"publish", "ensure", "scp"}
    /\ (Exited /\ MediaNames(outdir) # {}) => (Stopped /\ exitcode = 0)

(***************************************************************************)
(* C28: on a healthy host, a run cancelled at most where its mode expects  *)
(* it and ended over an output directory without any media file has ended  *)
(* with status 0 and the driver released; its finally block republished    *)
(* no file and wrote no thumbnail, and the index page has no tile.         *)
(***************************************************************************)
C28_FinalizingOverNoMedia ==
  (ValidRun /\ env = Healthy /\ dirstate = "dir" /\ CancelledOnly /\ Exited
     /\ MediaNames(outdir) = {}) =>
    /\ exitcode = 0
    /\ Stopped
    /\ EventsIn(FilePublishes(log), "publish", "Finalizing") = <<>>
    /\ thumbnail = NoThumb
    /\ indexPage.written => indexPage.tiles = <<>>

(***************************************************************************)
(* C29: no process cancelled at most where its mode expects it ends with   *)
(* the driver still started: on every such path to the end of the process, *)
(* a driver that was started has been stopped.                             *)
(* (The process takes no step after it has ended, so a driver left started *)
(* there is never stopped.)                                                *)
(***************************************************************************)
C29_StartedDriverIsStopped == (CancelledOnly /\ Exited) => picam2 # "started"

\* the callback has made its capture request and has not returned yet
CallbackMidway == hpc \notin {"idle", "h_capture"}

(***************************************************************************)
(* C30: in button mode, while a callback that has made its capture request *)
(* has not returned, the main thread neither builds the index page nor     *)
(* releases the driver; and once Finalizing has begun such a callback      *)
(* takes no step.                                                          *)
(***************************************************************************)
C30_MainWaitsForCallback ==
  /\ [][(args.mode = "button" /\ CallbackMidway) =>
          /\ Events(log', "index") = Events(log, "index")
          /\ (picam2' # picam2 => picam2' \notin {"stopped", "closed"})]_vars
  /\ [][(args.mode = "button" /\ CallbackMidway /\ Rank(EffPc) >= 2) =>
          (hpc' = hpc /\ hlog' = hlog)]_vars

=============================================================================
